---- MODULE Spec2Model ----
(***************************************************************************)
(* Model of src/src/validator.py (class Validator): the survey-response    *)
(* validation / de-duplication pipeline in its two modes, run_delete and   *)
(* run_list.                                                               *)
(*                                                                         *)
(* Text.  A Python str is modelled by its run-length encoding: a sequence  *)
(* of runs [c |-> character, n |-> repeat count], adjacent runs having     *)
(* different characters and every count positive.  The encoding is         *)
(* canonical, so equality of encodings is equality of strings; len() and   *)
(* strip() are computed on it.  A 64-character token is one or two runs.   *)
(*                                                                         *)
(* Tables.  A CSV file is [header, rows]; a DataFrame is [columns, rows]   *)
(* where each row carries its index label and its cells by column name.    *)
(* Record identifiers are unique (the data model's invariant); the cell of *)
(* the identifier column of the record at 0-based position i is i + 1.     *)
(*                                                                         *)
(* iterrows().  fix_token_position assigns into the Series that            *)
(* DataFrame.iterrows() yields.  pandas documents that the Series may be a *)
(* view of the frame or a copy ("writing to it will have no effect"),      *)
(* depending on the dtypes and the pandas build.  Which one it is, is      *)
(* fixed per build: iterrowsView is chosen once, in Init.                  *)
(***************************************************************************)
EXTENDS Integers, Sequences, FiniteSets, TLC

\* ------------------------------------------------------------------ bounds

\* Largest number of data rows of the survey file.
MaxRows == 3

\* ------------------------------------------------------- program constants

ID_FIELD == "Respondent ID"
WCA_TOKEN_FIELD == "wca_token"
WCA_TOKEN_LEN == 64

\* Python's None: bad_token_column when no unnamed column exists.
None == "None"

\* A file that was not written is <<>>, a written one <<its content>>; the
\* record of the earlier run is kept the same way.
NoFile == <<>>
Written(content) == <<content>>

\* ------------------------------------------------------------------- text

\* The characters str.strip() removes.
Whitespace == {" "}

Run1(c, n) == <<[c |-> c, n |-> n]>>

RECURSIVE StrLen(_)
\* len(s)
StrLen(s) == IF s = <<>> THEN 0 ELSE Head(s).n + StrLen(Tail(s))

RECURSIVE LStrip(_)
LStrip(s) ==
    IF s = <<>> THEN s
    ELSE IF Head(s).c \in Whitespace THEN LStrip(Tail(s)) ELSE s

RECURSIVE RStrip(_)
RStrip(s) ==
    IF s = <<>> THEN s
    ELSE IF s[Len(s)].c \in Whitespace THEN RStrip(SubSeq(s, 1, Len(s) - 1)) ELSE s

\* str.strip()
Strip(s) == RStrip(LStrip(s))

\* The texts the input files are built from.
Empty == <<>>
Blank == Run1(" ", 1)
Tok == Run1("a", WCA_TOKEN_LEN)
TokPadded == Tok \o Run1(" ", 1)
SpaceTok == Run1(" ", 1) \o Run1("b", WCA_TOKEN_LEN - 1)
Short == Run1("x", 5)

\* ------------------------------------------------------------ input files

\* (token, overflow) of a data row of a survey file with a trailing unnamed
\* column: every token with an empty overflow cell, blank tokens with each
\* overflow value, a non-blank token with a 64-character overflow value.
WideCells ==
    { <<t, Empty>> : t \in {Empty, Blank, Tok, TokPadded, Short} }
      \cup { <<Empty, Tok>>, <<Blank, SpaceTok>>, <<Empty, TokPadded>>, <<Short, Tok>> }

\* token of a data row of a survey file without a trailing unnamed column.
NarrowCells == { <<t>> : t \in {Empty, Blank, Tok, TokPadded, Short} }

RowsOver(cells) ==
    UNION { [1..n -> cells] : n \in 0..MaxRows }

\* The survey files: header line and data rows; the identifier cell of the
\* row at position i (from 1) is i.
SurveyFiles ==
    { [header |-> <<ID_FIELD, WCA_TOKEN_FIELD, "">>,
       rows |-> [i \in DOMAIN r |-> <<i>> \o r[i]]] : r \in RowsOver(WideCells) }
      \cup
    { [header |-> <<ID_FIELD, WCA_TOKEN_FIELD>>,
       rows |-> [i \in DOMAIN r |-> <<i>> \o r[i]]] : r \in RowsOver(NarrowCells) }

\* The token files: their lines, and whether the last line ends in "\n".
TokenFiles == { [lines |-> <<Tok>>, newline |-> b] : b \in BOOLEAN }

\* ----------------------------------------------------------------- pandas

Range(f) == { f[i] : i \in DOMAIN f }

\* Position of column name c in the column sequence cols.
ColumnPos(cols, c) == CHOOSE j \in DOMAIN cols : cols[j] = c

\* The names read_csv gives to columns whose header field is empty, by
\* 0-based column position.
UnnamedNames == <<"Unnamed: 0", "Unnamed: 1", "Unnamed: 2">>

\* 'Unnamed' in name
IsUnnamed(name) == name \in Range(UnnamedNames)

\* pandas.read_csv(path, converters={i: str ...}): every cell is kept as
\* text, rows are labelled 0, 1, ..., a column without a name is named
\* "Unnamed: <position>".
ReadCsv(file) ==
    LET cols == [j \in DOMAIN file.header |->
                    IF file.header[j] = "" THEN UnnamedNames[j] ELSE file.header[j]]
    IN  [columns |-> cols,
         rows |-> [i \in DOMAIN file.rows |->
                     [index |-> i - 1,
                      cells |-> [c \in Range(cols) |-> file.rows[i][ColumnPos(cols, c)]]]]]

\* DataFrame.to_csv(path, index=False): the header row and the cells in
\* column order; the index labels are not written.
ToCsv(frame) ==
    [header |-> frame.columns,
     rows |-> [i \in DOMAIN frame.rows |->
                 [j \in DOMAIN frame.columns |-> frame.rows[i].cells[frame.columns[j]]]]]

\* DataFrame.drop(index, axis=0): the frame without the row labelled index.
DropRow(frame, index) ==
    [frame EXCEPT !.rows = SelectSeq(frame.rows, LAMBDA r : r.index # index)]

\* DataFrame.duplicated(subset=[column], keep='first'): by position, whether
\* an earlier row has the same value in that column.
Duplicated(frame, column) ==
    [i \in DOMAIN frame.rows |->
        \E j \in 1..(i - 1) : frame.rows[j].cells[column] = frame.rows[i].cells[column]]

RECURSIVE SelectByMask(_, _)
\* rows[mask]: the rows whose mask entry is true, in order.
SelectByMask(rows, mask) ==
    IF rows = <<>> THEN <<>>
    ELSE (IF Head(mask) THEN <<Head(rows)>> ELSE <<>>)
            \o SelectByMask(Tail(rows), Tail(mask))

\* DataFrame.drop_duplicates(subset=[column], keep='first', ignore_index=False):
\* the rows that are not duplicated, with their labels.
DropDuplicates(frame, column) ==
    LET dup == Duplicated(frame, column)
    IN  [frame EXCEPT !.rows =
            SelectByMask(frame.rows, [i \in DOMAIN dup |-> ~dup[i]])]

\* frame.iloc[1:]: the rows past the first, by position.
Iloc1(frame) == IF frame.rows = <<>> THEN <<>> ELSE Tail(frame.rows)

\* -------------------------------------------------------------- Validator

VARIABLES
    pc,                \* where the current run stands
    rerun,             \* whether the current run follows an earlier one
    iterrowsView,      \* whether iterrows() yields views of the frame's rows
    input,             \* the survey file at input_path
    tokens,            \* the token file at tokens_path
    list_only,         \* arguments.list_only
    df,                \* self.df
    token_list,        \* self.token_list
    total_responses,   \* self.total_responses
    bad_token_column,  \* self.bad_token_column
    deleted,           \* self.deleted
    to_delete,         \* self.to_delete
    repaired,          \* self.df as fix_token_position left it (history)
    csv_out,           \* the file run_delete wrote at output_path
    list_out,          \* the lines run_list wrote at output_path
    previous           \* what the earlier run read and did (history)

vars == <<pc, rerun, iterrowsView, input, tokens, list_only, df, token_list,
          total_responses, bad_token_column, deleted, to_delete, repaired,
          csv_out, list_out, previous>>

\* f.read().split('\n'): the lines, and one more, empty, string when the
\* text ends with a newline.
SplitLines(file) == file.lines \o (IF file.newline THEN <<Empty>> ELSE <<>>)

\* Validator.is_valid
is_valid(token, tokenList) == token \in Range(tokenList)

\* The identifiers of the rows of a frame, in order.
Ids(rows) == [i \in DOMAIN rows |-> rows[i].cells[ID_FIELD]]

\* The condition under which fix_token_position rewrites a row's token.
Misplaced(row, column) ==
    /\ Strip(row.cells[WCA_TOKEN_FIELD]) = Empty
    /\ StrLen(row.cells[column]) = WCA_TOKEN_LEN

\* Validator.fix_token_position: for every row past the first, a blank token
\* beside a 64-character overflow value is replaced by the stripped overflow
\* value, in the Series iterrows() yielded: in the frame when that is a view.
fix_token_position(frame, column, view) ==
    [frame EXCEPT !.rows =
        [i \in DOMAIN frame.rows |->
            IF i > 1 /\ view /\ Misplaced(frame.rows[i], column)
            THEN [frame.rows[i] EXCEPT
                    !.cells[WCA_TOKEN_FIELD] = Strip(frame.rows[i].cells[column])]
            ELSE frame.rows[i]]]

\* Validator._delete: the row labelled index is dropped and counted.
_delete(frame, count, index) ==
    [df |-> DropRow(frame, index), deleted |-> count + 1]

RECURSIVE ValidateDeleteUnstripped(_, _, _, _)
\* ValidateDelete without the strip() of the token.
ValidateDeleteUnstripped(rows, frame, count, tokenList) ==
    IF rows = <<>> THEN [df |-> frame, deleted |-> count]
    ELSE LET token == Head(rows).cells[WCA_TOKEN_FIELD]
         IN  IF ~is_valid(token, tokenList) \/ token = Empty
             THEN LET after == _delete(frame, count, Head(rows).index)
                  IN  ValidateDeleteUnstripped(Tail(rows), after.df, after.deleted,
                                               tokenList)
             ELSE ValidateDeleteUnstripped(Tail(rows), frame, count, tokenList)

RECURSIVE ValidateDelete(_, _, _, _)
\* The validation loop of run_delete over the rows iloc[1:] held when the
\* loop began: a row whose stripped token is empty or not in the token list
\* is deleted from the frame by its label.
ValidateDelete(rows, frame, count, tokenList) ==
    IF rows = <<>> THEN [df |-> frame, deleted |-> count]
    ELSE LET token == Strip(Head(rows).cells[WCA_TOKEN_FIELD])
         IN  IF ~is_valid(token, tokenList) \/ token = Empty
             THEN LET after == _delete(frame, count, Head(rows).index)
                  IN  ValidateDelete(Tail(rows), after.df, after.deleted, tokenList)
             ELSE ValidateDelete(Tail(rows), frame, count, tokenList)

RECURSIVE ValidateListUnstripped(_, _, _, _)
\* ValidateList without the strip() of the token.
ValidateListUnstripped(rows, frame, pending, tokenList) ==
    IF rows = <<>> THEN pending
    ELSE LET token == Head(rows).cells[WCA_TOKEN_FIELD]
         IN  IF ~is_valid(token, tokenList) \/ token = Empty
             THEN ValidateListUnstripped(Tail(rows), frame,
                     Append(pending, frame.rows[Head(rows).index + 1].cells[ID_FIELD]),
                     tokenList)
             ELSE ValidateListUnstripped(Tail(rows), frame, pending, tokenList)

RECURSIVE ValidateList(_, _, _, _)
\* The validation loop of run_list: the identifier found at position index
\* of the frame is appended for a row whose stripped token is empty or not
\* in the token list.
ValidateList(rows, frame, pending, tokenList) ==
    IF rows = <<>> THEN pending
    ELSE LET token == Strip(Head(rows).cells[WCA_TOKEN_FIELD])
         IN  IF ~is_valid(token, tokenList) \/ token = Empty
             THEN ValidateList(Tail(rows), frame,
                     Append(pending, frame.rows[Head(rows).index + 1].cells[ID_FIELD]),
                     tokenList)
             ELSE ValidateList(Tail(rows), frame, pending, tokenList)

\* clean_to_delete comparing each element with the one right before it only.
CleanToDeleteAdjacent(list) ==
    LET keep == [i \in DOMAIN list |-> i = 1 \/ list[i - 1] # list[i]]
    IN  SelectByMask(list, keep)

\* clean_to_delete: the elements of a list that occur in no earlier position.
CleanToDelete(list) ==
    LET keep == [i \in DOMAIN list |-> \A j \in 1..(i - 1) : list[j] # list[i]]
    IN  SelectByMask(list, keep)

\* Validator.fix_headers: "Unnamed: <n>" is removed from the written text.
fix_headers(file) ==
    [file EXCEPT !.header =
        [j \in DOMAIN file.header |->
            IF IsUnnamed(file.header[j]) THEN "" ELSE file.header[j]]]

\* delete_older_duplicates dropping the rows in place in list mode too.
delete_older_duplicates_in_place(frame, listOnly) ==
    [df |-> DropDuplicates(frame, WCA_TOKEN_FIELD),
     duplicates |-> IF listOnly THEN Duplicated(frame, WCA_TOKEN_FIELD) ELSE <<>>]

\* Validator.delete_older_duplicates: in list mode the mask of the rows that
\* repeat an earlier row's token, the frame left alone; otherwise the frame
\* with those rows dropped in place, and no mask.
delete_older_duplicates(frame, listOnly) ==
    IF listOnly
    THEN [df |-> frame, duplicates |-> Duplicated(frame, WCA_TOKEN_FIELD)]
    ELSE [df |-> DropDuplicates(frame, WCA_TOKEN_FIELD), duplicates |-> <<>>]

NoFrame == [columns |-> <<>>, rows |-> <<>>]

Init ==
    /\ pc = "start"
    /\ rerun = FALSE
    /\ iterrowsView \in BOOLEAN
    /\ input \in SurveyFiles
    /\ tokens \in TokenFiles
    /\ list_only = FALSE
    /\ df = NoFrame
    /\ token_list = <<>>
    /\ total_responses = -1
    /\ bad_token_column = None
    /\ deleted = 0
    /\ to_delete = <<>>
    /\ repaired = NoFrame
    /\ csv_out = NoFile
    /\ list_out = NoFile
    /\ previous = NoFile

\* Validator.__init__ and Validator.run up to the choice of the mode: a
\* fresh Validator reads the survey file and the token file.
Load(file, listOnly) ==
    LET frame == ReadCsv(file)
        last == frame.columns[Len(frame.columns)]
    IN  /\ input' = file
        /\ list_only' = listOnly
        /\ df' = frame
        /\ token_list' = SplitLines(tokens)
        /\ total_responses' = Len(frame.rows) - 1
        /\ bad_token_column' = IF IsUnnamed(last) THEN last ELSE None
        /\ deleted' = 0
        /\ to_delete' = <<>>
        /\ repaired' = NoFrame
        /\ pc' = "fix"
        /\ UNCHANGED <<iterrowsView, tokens, csv_out, list_out>>

\* The program is started on the survey file, in either mode.
Run ==
    /\ pc = "start"
    /\ \E listOnly \in BOOLEAN : Load(input, listOnly)
    /\ UNCHANGED <<rerun, previous>>

\* What a finished run leaves for the comparison with the next one.
Finished ==
    [input |-> input, list_only |-> list_only, deleted |-> deleted,
     kept |-> Ids(df.rows)]

\* After delete mode finished, the program is started in list mode on the
\* same survey file.
RunListAfterDelete ==
    /\ pc = "done" /\ ~rerun /\ ~list_only
    /\ rerun' = TRUE
    /\ previous' = Written(Finished)
    /\ Load(input, TRUE)

\* After delete mode finished, the program is started in delete mode on the
\* file it wrote.
RunDeleteAgain ==
    /\ pc = "done" /\ ~rerun /\ ~list_only
    /\ rerun' = TRUE
    /\ previous' = Written(Finished)
    /\ Load(csv_out[1], FALSE)

\* run_delete / run_list, "Fixing columns...": fix_token_position when an
\* unnamed column exists.
FixColumns ==
    /\ pc = "fix"
    /\ df' = IF bad_token_column # None
             THEN fix_token_position(df, bad_token_column, iterrowsView)
             ELSE df
    /\ repaired' = df'
    /\ pc' = "duplicates"
    /\ UNCHANGED <<rerun, iterrowsView, input, tokens, list_only, token_list,
                   total_responses, bad_token_column, deleted, to_delete,
                   csv_out, list_out, previous>>

\* Validator.delete_older_duplicates as run_delete and run_list call it:
\* delete mode drops the later rows of every token and counts them, list
\* mode starts to_delete with their identifiers.
DeleteOlderDuplicates ==
    /\ pc = "duplicates"
    /\ LET result == delete_older_duplicates(df, list_only)
       IN  /\ df' = result.df
           /\ IF list_only
              THEN /\ to_delete' = Ids(SelectByMask(result.df.rows, result.duplicates))
                   /\ UNCHANGED deleted
              ELSE /\ deleted' = deleted + (Len(df.rows) - Len(result.df.rows))
                   /\ UNCHANGED to_delete
    /\ pc' = "validate"
    /\ UNCHANGED <<rerun, iterrowsView, input, tokens, list_only, token_list,
                   total_responses, bad_token_column, repaired, csv_out,
                   list_out, previous>>

\* "Validating responses...": the loop of run_delete, respectively run_list.
Validate ==
    /\ pc = "validate"
    /\ IF list_only
       THEN /\ to_delete' = ValidateList(Iloc1(df), df, to_delete, token_list)
            /\ UNCHANGED <<df, deleted>>
       ELSE LET after == ValidateDelete(Iloc1(df), df, deleted, token_list)
            IN  /\ df' = after.df
                /\ deleted' = after.deleted
                /\ UNCHANGED to_delete
    /\ pc' = "emit"
    /\ UNCHANGED <<rerun, iterrowsView, input, tokens, list_only, token_list,
                   total_responses, bad_token_column, repaired, csv_out,
                   list_out, previous>>

\* run_delete from "Remove bad_token_column from dataframe" on: the result
\* of DataFrame.drop(..., axis=1) is not assigned and self.df keeps the
\* column; the frame is written and the written headers are fixed.
EmitDelete ==
    /\ pc = "emit" /\ ~list_only
    /\ csv_out' = Written(fix_headers(ToCsv(df)))
    /\ pc' = "done"
    /\ UNCHANGED <<rerun, iterrowsView, input, tokens, list_only, df, token_list,
                   total_responses, bad_token_column, deleted, to_delete,
                   repaired, list_out, previous>>

\* run_list from "Check bad_token_column" on: self.df[None] raises KeyError
\* when no unnamed column exists, before anything is written; otherwise the
\* cleaned list is written and counted.
EmitList ==
    /\ pc = "emit" /\ list_only
    /\ IF bad_token_column = None
       THEN /\ pc' = "KeyError"
            /\ UNCHANGED <<list_out, deleted>>
       ELSE /\ list_out' = Written(CleanToDelete(to_delete))
            /\ deleted' = Len(CleanToDelete(to_delete))
            /\ pc' = "done"
    /\ UNCHANGED <<rerun, iterrowsView, input, tokens, list_only, df, token_list,
                   total_responses, bad_token_column, to_delete, repaired,
                   csv_out, previous>>

Next ==
    \/ Run
    \/ RunListAfterDelete
    \/ RunDeleteAgain
    \/ FixColumns
    \/ DeleteOlderDuplicates
    \/ Validate
    \/ EmitDelete
    \/ EmitList

Spec == Init /\ [][Next]_vars

\* ----------------------------------------------------------------- claims

\* The table as read from the survey file of the current run.
Loaded == ReadCsv(input)

\* The current run is over: it wrote its output, or it raised.
Ended == pc \in {"done", "KeyError"}

Token(row) == row.cells[WCA_TOKEN_FIELD]
Id(row) == row.cells[ID_FIELD]

\* Membership of a text in the TokenSet.
InTokenSet(t) == \E k \in DOMAIN token_list : token_list[k] = t

\* The identifiers of the records the table still holds.
Kept == { Id(df.rows[i]) : i \in DOMAIN df.rows }

\* The identifiers in the deletion list run_list wrote (none when it wrote
\* no list).
Listed == IF list_out = NoFile THEN {} ELSE Range(list_out[1])

\* The record fails validation on the token that validation reads.
FailsValidation(row) ==
    Strip(Token(row)) = Empty \/ ~InTokenSet(Strip(Token(row)))

\* The positions of the records that share the token of the record at i.
Group(rows, i) == { j \in DOMAIN rows : Token(rows[j]) = Token(rows[i]) }

\* The position at which x first occurs in seq.
FirstPos(seq, x) ==
    CHOOSE k \in DOMAIN seq : seq[k] = x /\ \A m \in 1..(k - 1) : seq[m] # x

\* C1: every record, at any position, whose trimmed token is empty or not in
\* the TokenSet is absent from the table after run_delete, and its
\* identifier is in the list run_list wrote.  (Tokens are taken as
\* validation reads them, after column repair.)
C1_InvalidRemovedOrListed ==
    Ended =>
        \A i \in DOMAIN repaired.rows :
            FailsValidation(repaired.rows[i]) =>
                IF list_only
                THEN Id(repaired.rows[i]) \in Listed
                ELSE Id(repaired.rows[i]) \notin Kept

\* C2 as stated: every record whose trimmed token is in the TokenSet and
\* whose token no other record has is in the table after run_delete and not
\* in the list run_list wrote.
C2_MemberUniqueKept ==
    Ended =>
        \A i \in DOMAIN repaired.rows :
            ( /\ InTokenSet(Strip(Token(repaired.rows[i])))
              /\ Group(repaired.rows, i) = {i} ) =>
                IF list_only
                THEN Id(repaired.rows[i]) \notin Listed
                ELSE Id(repaired.rows[i]) \in Kept

\* C2 amended: every record whose trimmed token is non-empty and in the
\* TokenSet and whose token no other record has (tokens as column repair
\* leaves them) is in the table after run_delete, in the file it wrote, and
\* not in the list run_list wrote.
C2_ValidUniqueKept ==
    Ended =>
        \A i \in DOMAIN repaired.rows :
            ( /\ Strip(Token(repaired.rows[i])) # Empty
              /\ InTokenSet(Strip(Token(repaired.rows[i])))
              /\ Group(repaired.rows, i) = {i} ) =>
                IF list_only
                THEN Id(repaired.rows[i]) \notin Listed
                ELSE /\ Id(repaired.rows[i]) \in Kept
                     /\ \E k \in DOMAIN csv_out[1].rows :
                            csv_out[1].rows[k][1] = Id(repaired.rows[i])

\* C2 witness: list mode, run after delete mode on the same file, wrote a
\* non-empty list and a record past the first row has a valid token, padded
\* with whitespace, that no other record has.
C2_Witness ==
    /\ pc = "done" /\ list_only /\ rerun
    /\ Listed # {}
    /\ \E i \in DOMAIN repaired.rows :
          /\ i > 1
          /\ Token(repaired.rows[i]) # Strip(Token(repaired.rows[i]))
          /\ Strip(Token(repaired.rows[i])) # Empty
          /\ InTokenSet(Strip(Token(repaired.rows[i])))
          /\ Group(repaired.rows, i) = {i}
          /\ Id(repaired.rows[i]) \in Range(previous[1].kept)

\* C3: of every group of two or more records sharing one non-empty token,
\* exactly the first-appearing record is retained: after run_delete it alone
\* of the group is in the table, and run_list lists all the others and not
\* it.
C3_FirstOfGroupKept ==
    Ended =>
        \A i \in DOMAIN repaired.rows :
            LET group == Group(repaired.rows, i)
                first == CHOOSE j \in group : \A k \in group : j <= k
                ids == { Id(repaired.rows[j]) : j \in group }
            IN  (Token(repaired.rows[i]) # Empty /\ Cardinality(group) >= 2) =>
                    IF list_only
                    THEN list_out # NoFile /\ ids \ Listed = {Id(repaired.rows[first])}
                    ELSE ids \cap Kept = {Id(repaired.rows[first])}

\* C4: the list run_list writes holds no identifier twice, holds exactly the
\* identifiers of to_delete, in the order of their first occurrence there,
\* and to_delete is the identifiers of the duplicate mask followed by those
\* of the validation failures.
C4_ListCleaned ==
    (pc = "done" /\ list_only) =>
        LET out == list_out[1]
        IN  /\ \A i, j \in DOMAIN out : i # j => out[i] # out[j]
            /\ Range(out) = Range(to_delete)
            /\ \A i, j \in DOMAIN out :
                  i < j => FirstPos(to_delete, out[i]) < FirstPos(to_delete, out[j])
            /\ to_delete =
                  Ids(SelectSeq(df.rows, LAMBDA r :
                        \E j \in 1..r.index : Token(df.rows[j]) = Token(r)))
                  \o Ids(SelectSeq(df.rows, LAMBDA r :
                        r.index >= 1 /\ FailsValidation(r)))

\* C4 witness: run_list wrote a list of two or more identifiers after an
\* identifier was put on to_delete twice.
C4_Witness ==
    /\ pc = "done" /\ list_only
    /\ Len(list_out[1]) >= 2
    /\ Len(to_delete) > Len(list_out[1])

\* C5: after fix_token_position every record past the first row whose token
\* was blank and whose overflow value has exactly 64 characters has the
\* trimmed overflow value as its token; every other token and every
\* overflow value is as loaded.
C5_TokensRepaired ==
    (pc = "duplicates" /\ bad_token_column # None) =>
        \A i \in DOMAIN df.rows :
            LET old == Loaded.rows[i]
                new == df.rows[i]
            IN  /\ new.cells[bad_token_column] = old.cells[bad_token_column]
                /\ Token(new) =
                      IF /\ i > 1
                         /\ Strip(Token(old)) = Empty
                         /\ StrLen(old.cells[bad_token_column]) = WCA_TOKEN_LEN
                      THEN Strip(old.cells[bad_token_column])
                      ELSE Token(old)

\* C6: when the survey file has a trailing unnamed column, the table
\* run_delete serializes is without it: the written columns are the input
\* columns minus the overflow column.
C6_OverflowColumnDropped ==
    (pc = "done" /\ ~list_only /\ bad_token_column # None) =>
        /\ bad_token_column \notin Range(df.columns)
        /\ csv_out[1].header = SubSeq(input.header, 1, Len(input.header) - 1)

\* C7: when the survey file has no trailing unnamed column, no step of
\* either mode fails for want of the column: the run does not end in the
\* KeyError of a lookup of the column None.
C7_NoColumnNoFailure ==
    bad_token_column = None => pc # "KeyError"

\* C8 as stated: when run_list is over, the table is as it was right after
\* loading.
C8_TableUntouched ==
    (list_only /\ Ended) => df = Loaded

\* C8 amended: throughout run_list the table has the loaded records in the
\* loaded order with the loaded field values, but for the token of a record
\* column repair applies to (past the first row, blank token, overflow value
\* of 64 characters), which is the loaded one or the trimmed overflow value.
C8_OnlyRepairRewrites ==
    (list_only /\ pc # "start") =>
        /\ df.columns = Loaded.columns
        /\ Len(df.rows) = Len(Loaded.rows)
        /\ \A i \in DOMAIN Loaded.rows :
              LET old == Loaded.rows[i]
                  new == df.rows[i]
                  repairable ==
                      /\ i > 1
                      /\ bad_token_column # None
                      /\ Strip(Token(old)) = Empty
                      /\ StrLen(old.cells[bad_token_column]) = WCA_TOKEN_LEN
              IN  /\ new.index = old.index
                  /\ \A c \in Range(Loaded.columns) \ {WCA_TOKEN_FIELD} :
                        new.cells[c] = old.cells[c]
                  /\ IF repairable
                     THEN Token(new) \in {Token(old), Strip(old.cells[bad_token_column])}
                     ELSE Token(new) = Token(old)

\* C8 witness: run_list wrote a list of two or more identifiers over a table
\* that holds a duplicate and a record whose token column repair rewrote.
C8_Witness ==
    /\ pc = "done" /\ list_only
    /\ Len(list_out[1]) >= 2
    /\ \E i \in DOMAIN df.rows : Cardinality(Group(df.rows, i)) >= 2
    /\ \E i \in DOMAIN df.rows : Token(df.rows[i]) # Token(Loaded.rows[i])

\* A survey file without duplicate tokens whose every trimmed token is
\* non-empty and in the TokenSet.
Clean(file) ==
    /\ \A i, j \in DOMAIN file.rows : i # j => file.rows[i][2] # file.rows[j][2]
    /\ \A i \in DOMAIN file.rows :
          /\ Strip(file.rows[i][2]) # Empty
          /\ InTokenSet(Strip(file.rows[i][2]))

\* C9: on a clean survey file run_delete removes no record (deleted stays 0)
\* and writes the same records in the same order; run again on the file it
\* wrote, it again removes nothing and writes the same records.
C9_CleanInputUnchanged ==
    (pc = "done" /\ ~list_only) =>
        /\ Clean(input) =>
              /\ deleted = 0
              /\ Ids(df.rows) = [i \in DOMAIN input.rows |-> input.rows[i][1]]
              /\ csv_out[1].rows = input.rows
        /\ (rerun /\ Clean(previous[1].input)) =>
              /\ input.rows = previous[1].input.rows
              /\ previous[1].deleted = 0
              /\ deleted = 0
              /\ csv_out[1].rows = previous[1].input.rows

\* C9 witness: the second run of run_delete is over, on the file written
\* from a clean survey file of two or more records with an unnamed column.
C9_Witness ==
    /\ pc = "done" /\ ~list_only /\ rerun
    /\ Clean(previous[1].input)
    /\ Len(previous[1].input.rows) >= 2
    /\ bad_token_column # None

\* C10: on the same survey file and TokenSet, the identifiers run_list
\* writes are the identifiers of the records run_delete removed, and the
\* final deleted counter of either mode is their number.
C10_ModesAgree ==
    (list_only /\ rerun /\ Ended) =>
        LET removed == { input.rows[i][1] : i \in DOMAIN input.rows }
                          \ Range(previous[1].kept)
        IN  /\ list_out # NoFile
            /\ Listed = removed
            /\ deleted = Cardinality(removed)
            /\ previous[1].deleted = Cardinality(removed)

====
